---------------------------- MODULE Spec2Model ----------------------------
(* A model of the clinical documentation system: the interactive session  *)
(* of main.py (ClinicalDocumentationSystem), the chat bridge of            *)
(* api_server.py (FallbackSystem, process_chat_input, the routes) and the  *)
(* note generator of process.py.  Texts are strings and the extractors     *)
(* search them character by character, as the Python code does.            *)
EXTENDS Integers, Sequences, FiniteSets, TLC

VARIABLES
    frontend,           \* "cli": main.py's run loop; "api": api_server.py
    mode,               \* class of clinical_system: "full" or "fallback"
    symptom_events,     \* patient_state["symptom_events"]
    medication_events,  \* patient_state["medication_events"]
    faiss_index,        \* the vectors of faiss_index, in the order they were added
    event_store,        \* event_store, the list kept beside faiss_index
    patient_info,       \* patient_state["patient_info"]
    response,           \* what the last request gave its caller
    appended,           \* history: <<stream, position>> of every append, in order
    nRecorded,          \* history: record operations that ran to their end
    nFailed,            \* history: record operations a collaborator's exception ended
    tasks,              \* the chat requests the event loop has accepted, in that order
    current             \* the task the event loop is running; 0 when it runs none

vars == <<frontend, mode, symptom_events, medication_events, faiss_index,
          event_store, patient_info, response, appended, nRecorded, nFailed,
          tasks, current>>

stores == <<symptom_events, medication_events, faiss_index, event_store>>

loop == <<tasks, current>>

-----------------------------------------------------------------------------
(* Bounds of the model.                                                    *)

\* appends the model follows after initialization
MaxAppends == 2
\* record operations in which a collaborator is made to raise
MaxFaults == 1
\* words in a text given to an extractor on its own
MaxWords == 3
\* events in a list given to the note generator on its own
MaxEvents == 2
\* chat requests the event loop accepts
MaxRequests == 2

-----------------------------------------------------------------------------
(* Python values.                                                          *)

None == "None"

Min(S) == CHOOSE x \in S : \A y \in S : x <= y

Range(s) == {s[i] : i \in 1..Len(s)}

IsPrefix(s, t) == Len(s) <= Len(t) /\ SubSeq(t, 1, Len(s)) = s

\* str.lower(), one character
LowerChar(c) ==
    CASE c = "A" -> "a" [] c = "B" -> "b" [] c = "C" -> "c" [] c = "D" -> "d"
      [] c = "E" -> "e" [] c = "F" -> "f" [] c = "G" -> "g" [] c = "H" -> "h"
      [] c = "I" -> "i" [] c = "J" -> "j" [] c = "K" -> "k" [] c = "L" -> "l"
      [] c = "M" -> "m" [] c = "N" -> "n" [] c = "O" -> "o" [] c = "P" -> "p"
      [] c = "Q" -> "q" [] c = "R" -> "r" [] c = "S" -> "s" [] c = "T" -> "t"
      [] c = "U" -> "u" [] c = "V" -> "v" [] c = "W" -> "w" [] c = "X" -> "x"
      [] c = "Y" -> "y" [] c = "Z" -> "z" [] OTHER -> c

RECURSIVE Lower(_)
Lower(s) ==
    IF s = "" THEN ""
    ELSE LowerChar(SubSeq(s, 1, 1)) \o Lower(SubSeq(s, 2, Len(s)))

\* pattern in s
Contains(pattern, s) ==
    \E i \in 1..(Len(s) - Len(pattern) + 1) :
        SubSeq(s, i, i + Len(pattern) - 1) = pattern

\* s[i:].startswith(pattern), i counted from 1
MatchAt(pattern, s, i) ==
    /\ i + Len(pattern) - 1 <= Len(s)
    /\ SubSeq(s, i, i + Len(pattern) - 1) = pattern

IsDigit(c) == c \in {"0", "1", "2", "3", "4", "5", "6", "7", "8", "9"}

IsSpace(c) == c \in {" ", "\t", "\n"}

\* the first position from i on whose character is not a digit (\d* is greedy)
RECURSIVE SkipDigits(_, _)
SkipDigits(s, i) ==
    IF i <= Len(s) /\ IsDigit(SubSeq(s, i, i)) THEN SkipDigits(s, i + 1) ELSE i

\* the first position from i on whose character is not white space (\s*)
RECURSIVE SkipSpaces(_, _)
SkipSpaces(s, i) ==
    IF i <= Len(s) /\ IsSpace(SubSeq(s, i, i)) THEN SkipSpaces(s, i + 1) ELSE i

\* str.strip()
RECURSIVE Strip(_)
Strip(s) ==
    IF s = "" THEN ""
    ELSE IF IsSpace(SubSeq(s, 1, 1)) THEN Strip(SubSeq(s, 2, Len(s)))
    ELSE IF IsSpace(SubSeq(s, Len(s), Len(s))) THEN Strip(SubSeq(s, 1, Len(s) - 1))
    ELSE s

\* FirstIn by the place in the text: the entry that occurs first in s
FirstIn_ByPosition(list, s) ==
    LET hits   == {i \in 1..Len(list) : Contains(list[i], s)}
        at(i)  == Min({k \in 1..Len(s) : MatchAt(list[i], s, k)})
    IN  IF hits = {} THEN None
        ELSE list[CHOOSE i \in hits : \A j \in hits : at(i) < at(j) \/ (at(i) = at(j) /\ i <= j)]

\* the first entry of an ordered list that occurs in s, or None
FirstIn(list, s) ==
    LET hits == {i \in 1..Len(list) : Contains(list[i], s)}
    IN  IF hits = {} THEN None ELSE list[Min(hits)]

-----------------------------------------------------------------------------
(* The vocabularies and the extractors of ClinicalDocumentationSystem.     *)

symptoms ==
    << "headache", "chest pain", "nausea", "dizziness", "fatigue",
       "fever", "breathlessness", "cough", "sore throat", "vomiting",
       "abdominal pain", "back pain", "joint pain", "muscle pain",
       "shortness of breath", "palpitations", "sweating", "chills" >>

medications ==
    << "metformin", "aspirin", "paracetamol", "ibuprofen", "lisinopril",
       "amlodipine", "omeprazole", "levothyroxine", "atorvastatin",
       "losartan", "metoprolol", "albuterol", "insulin", "warfarin",
       "clopidogrel", "prednisone", "amoxicillin", "azithromycin" >>

\* a dict keeps its keys in the order they were written
time_patterns ==
    << [key |-> "morning",   patterns |-> <<"morning", "am", "breakfast">>],
       [key |-> "afternoon", patterns |-> <<"afternoon", "lunch", "noon">>],
       [key |-> "evening",   patterns |-> <<"evening", "dinner">>],
       [key |-> "night",     patterns |-> <<"night", "bedtime", "pm">>] >>

food_patterns ==
    << [key |-> "after food",
        patterns |-> <<"after food", "after eating", "after meal",
                       "after breakfast", "after lunch", "after dinner">>],
       [key |-> "before food",
        patterns |-> <<"before food", "before eating", "before meal",
                       "before breakfast", "before lunch", "before dinner">>],
       [key |-> "with food",
        patterns |-> <<"with food", "with meal", "with meals", "during meal">>],
       [key |-> "empty stomach",
        patterns |-> <<"empty stomach", "on empty stomach", "without food">>] >>

frequency_markers ==
    << "again", "twice", "three times", "multiple times", "every day",
       "daily", "since yesterday" >>

\* the key of the first entry one of whose patterns occurs in s, or dflt
FirstKey(table, s, dflt) ==
    LET hits == {i \in 1..Len(table) :
                    \E j \in 1..Len(table[i].patterns) :
                        Contains(table[i].patterns[j], s)}
    IN  IF hits = {} THEN dflt ELSE table[Min(hits)].key

_extract_symptom(text) == FirstIn(symptoms, Lower(text))

_extract_medication(text) == FirstIn(medications, Lower(text))

\* where a match of \d+\.?\d*\s*<unit> that starts at i ends, or 0
DecimalDoseEnd(s, i, unit) ==
    LET j == SkipDigits(s, i)
        k == IF MatchAt(".", s, j) THEN j + 1 ELSE j
        m == SkipSpaces(s, SkipDigits(s, k))
    IN  IF j > i /\ MatchAt(unit, s, m) THEN m + Len(unit) - 1 ELSE 0

\* where a match of \d+\s*<unit>[s]? that starts at i ends, or 0
CountDoseEnd(s, i, unit) ==
    LET j == SkipDigits(s, i)
        m == SkipSpaces(s, j)
        e == m + Len(unit) - 1
    IN  IF j > i /\ MatchAt(unit, s, m)
        THEN (IF MatchAt("s", s, e + 1) THEN e + 1 ELSE e)
        ELSE 0

\* dose_patterns, in the order they are tried
DosePatternEnd(p, s, i) ==
    CASE p = 1 -> DecimalDoseEnd(s, i, "mg")
      [] p = 2 -> CountDoseEnd(s, i, "tablet")
      [] p = 3 -> CountDoseEnd(s, i, "unit")
      [] p = 4 -> DecimalDoseEnd(s, i, "ml")

\* re.search(pattern, s): group(1) of the leftmost match, or None
DoseSearch(p, s) ==
    LET starts == {i \in 1..Len(s) : DosePatternEnd(p, s, i) > 0}
    IN  IF starts = {} THEN None
        ELSE SubSeq(s, Min(starts), DosePatternEnd(p, s, Min(starts)))

_extract_dose(text) ==
    LET s    == Lower(text)
        hits == {p \in 1..4 : DoseSearch(p, s) # None}
    IN  IF hits = {} THEN None ELSE DoseSearch(Min(hits), s)

\* the ways (\d{1,2}):?(\d{2})? can be taken, in the order the matcher tries them
ClockShapes ==
    << [hour |-> 2, colon |-> 1, minute |-> 2], [hour |-> 2, colon |-> 1, minute |-> 0],
       [hour |-> 2, colon |-> 0, minute |-> 2], [hour |-> 2, colon |-> 0, minute |-> 0],
       [hour |-> 1, colon |-> 1, minute |-> 2], [hour |-> 1, colon |-> 1, minute |-> 0],
       [hour |-> 1, colon |-> 0, minute |-> 2], [hour |-> 1, colon |-> 0, minute |-> 0] >>

AllDigits(s, i, n) ==
    /\ i + n - 1 <= Len(s)
    /\ \A k \in i..(i + n - 1) : IsDigit(SubSeq(s, k, k))

\* where a match of that shape followed by \s*(am|pm) and starting at i ends, or 0
ClockShapeEnd(shape, s, i) ==
    LET c == i + shape.hour
        m == c + shape.colon
        w == SkipSpaces(s, m + shape.minute)
    IN  IF /\ AllDigits(s, i, shape.hour)
           /\ (shape.colon = 1 => MatchAt(":", s, c))
           /\ AllDigits(s, m, shape.minute)
           /\ (MatchAt("am", s, w) \/ MatchAt("pm", s, w))
        THEN w + 1 ELSE 0

\* re.search(r'(\d{1,2}):?(\d{2})?\s*(am|pm)', s): group(0), or None
ClockSearch(s) ==
    LET ok(i)  == {n \in 1..Len(ClockShapes) : ClockShapeEnd(ClockShapes[n], s, i) > 0}
        starts == {i \in 1..Len(s) : ok(i) # {}}
    IN  IF starts = {} THEN None
        ELSE LET i == Min(starts)
             IN  SubSeq(s, i, ClockShapeEnd(ClockShapes[Min(ok(i))], s, i))

_extract_time_of_day(text) ==
    LET s == Lower(text)
    IN  IF ClockSearch(s) # None THEN ClockSearch(s)
        ELSE FirstKey(time_patterns, s, "unspecified time")

_extract_food_relation(text) == FirstKey(food_patterns, Lower(text), None)

_extract_frequency_marker(text) == FirstIn(frequency_markers, Lower(text))

-----------------------------------------------------------------------------
(* FallbackSystem of api_server.py: its own, shorter vocabularies.         *)

FallbackSymptoms ==
    << "headache", "chest pain", "nausea", "dizziness", "fatigue",
       "fever", "breathlessness", "cough", "sore throat", "vomiting",
       "abdominal pain", "back pain", "joint pain", "muscle pain" >>

FallbackMedications ==
    << "metformin", "aspirin", "paracetamol", "ibuprofen", "lisinopril",
       "amlodipine", "omeprazole", "levothyroxine", "atorvastatin" >>

Fallback_extract_symptom(text) == FirstIn(FallbackSymptoms, Lower(text))

Fallback_extract_medication(text) == FirstIn(FallbackMedications, Lower(text))

Fallback_extract_time(text) ==
    LET s == Lower(text)
        any(ws) == \E w \in ws : Contains(w, s)
    IN  IF any({"morning", "am", "breakfast"}) THEN "morning"
        ELSE IF any({"afternoon", "lunch", "noon"}) THEN "afternoon"
        ELSE IF any({"evening", "dinner"}) THEN "evening"
        ELSE IF any({"night", "bedtime", "pm"}) THEN "night"
        ELSE "unspecified"

-----------------------------------------------------------------------------
(* The texts a nurse types, and what the extractors find in each.          *)

Texts ==
    { "Patient has headache after breakfast",
      "Gave metformin 1000mg in morning",
      "Headache again, gave aspirin 2 tablets at 9:30 pm",
      "show timeline",
      "help",
      "hello" }

\* the texts given to the note and med commands of the run loop
RecordTexts ==
    { "Patient has headache after breakfast",
      "Gave metformin 1000mg in morning",
      "Headache again, gave aspirin 2 tablets at 9:30 pm",
      "hello" }

\* the texts of the chat requests that are followed step by step: with a
\* symptom, a medication, both, the word timeline, none of them
LoopTexts ==
    { "Patient has headache after breakfast",
      "Gave metformin 1000mg in morning",
      "Headache and aspirin, show timeline help",
      "aspirin timeline",
      "show timeline",
      "hello",
      "" }

\* ClinicalDocumentationSystem's extractors on each text
Extracted ==
    [t \in Texts \cup LoopTexts |->
        [symptom          |-> _extract_symptom(t),
         medication       |-> _extract_medication(t),
         dose             |-> _extract_dose(t),
         time_of_day      |-> _extract_time_of_day(t),
         relation_to_food |-> _extract_food_relation(t),
         frequency_marker |-> _extract_frequency_marker(t)]]

\* FallbackSystem's extractors on each text
FallbackExtracted ==
    [t \in Texts \cup LoopTexts |->
        [symptom     |-> Fallback_extract_symptom(t),
         medication  |-> Fallback_extract_medication(t),
         time_of_day |-> Fallback_extract_time(t)]]

-----------------------------------------------------------------------------
(* The state ClinicalDocumentationSystem.__init__ builds.  Timestamps are   *)
(* ISO strings compared as strings; the model keeps their order: the four   *)
(* seeded ones are 1..4, and datetime.now() reads a later one.              *)

SeedPatientInfo == [age |-> 62, gender |-> "male"]

SeedSymptomEvents ==
    << [symptom |-> "headache", time_of_day |-> "morning",
        relation_to_food |-> "after food", frequency_marker |-> "again",
        timestamp |-> 4],
       [symptom |-> "chest pain", time_of_day |-> "night",
        relation_to_food |-> "after food", frequency_marker |-> None,
        timestamp |-> 2] >>

SeedMedicationEvents ==
    << [medication |-> "metformin", dose |-> "1000 mg", time_of_day |-> "morning",
        relation_to_food |-> "after food", route |-> "oral",
        timestamp |-> 3, note |-> "patient reported intake"],
       [medication |-> "lisinopril", dose |-> None, time_of_day |-> "night",
        relation_to_food |-> "before food", route |-> "oral",
        timestamp |-> 1, note |-> "patient reported intake"] >>

\* the readings datetime.now() can give: the wall clock, later than the seeds,
\* which two requests can read alike and which can be set back between them
NowValues == {Len(SeedSymptomEvents) + Len(SeedMedicationEvents) + tick : tick \in {1, 2}}

\* events appended since initialization
Grown ==
    Len(symptom_events) + Len(medication_events)
        - (IF mode = "full" THEN Len(SeedSymptomEvents) + Len(SeedMedicationEvents) ELSE 0)

CanAppend == Grown < MaxAppends

NoReply == [kind |-> "none"]

Init ==
    /\ frontend \in {"cli", "api"}
    /\ mode \in {"full", "fallback"}
    \* main() ends when the models cannot be loaded; only the API falls back
    /\ frontend = "cli" => mode = "full"
    /\ patient_info = SeedPatientInfo
    /\ symptom_events = IF mode = "full" THEN SeedSymptomEvents ELSE <<>>
    /\ medication_events = IF mode = "full" THEN SeedMedicationEvents ELSE <<>>
    /\ faiss_index = <<>>
    /\ event_store = <<>>
    /\ response = [op |-> "init", raised |-> FALSE, reply |-> NoReply]
    /\ appended = IF mode = "full"
                  THEN << <<"symptom", 1>>, <<"symptom", 2>>,
                          <<"medication", 1>>, <<"medication", 2>> >>
                  ELSE <<>>
    /\ nRecorded = 0
    /\ nFailed = 0
    /\ tasks = <<>>
    /\ current = 0

-----------------------------------------------------------------------------
(* record_symptom and record_medication (main.py), as the run loop calls   *)
(* them: an exception a collaborator raises ends the method where it is    *)
(* and is printed by run.                                                  *)

\* where a record operation can be made to fail
RecordFaults == {"none", "embed", "add", "append"}

\* _get_embedding: the same text gives the same vector
_get_embedding(text) == [embedding_of |-> text]

\* the event record_symptom builds from what the extractors found in text
SymptomEvent(found, text, now) ==
    [symptom          |-> found.symptom,
     time_of_day      |-> found.time_of_day,
     relation_to_food |-> found.relation_to_food,
     frequency_marker |-> found.frequency_marker,
     timestamp        |-> now,
     raw_text         |-> text]

\* the event record_medication builds from what the extractors found in text
MedicationEvent(found, text, now) ==
    [medication       |-> found.medication,
     dose             |-> IF found.dose # None THEN found.dose ELSE "dose not specified",
     time_of_day      |-> found.time_of_day,
     relation_to_food |-> found.relation_to_food,
     route            |-> "oral",
     timestamp        |-> now,
     note             |-> "patient reported intake",
     raw_text         |-> text]

\* AddToIndex without its last line: the vector is added, the reference is not
AddToIndex_NoReference(canonical, ref, fault) ==
    /\ faiss_index' = IF fault \in {"none", "append"}
                      THEN Append(faiss_index, _get_embedding(canonical))
                      ELSE faiss_index
    /\ event_store' = event_store

\* lines 243-246 and 284-287: embed, add the vector, then append the reference
AddToIndex(canonical, ref, fault) ==
    /\ faiss_index' = IF fault \in {"none", "append"}
                      THEN Append(faiss_index, _get_embedding(canonical))
                      ELSE faiss_index
    /\ event_store' = IF fault = "none" THEN Append(event_store, ref) ELSE event_store

record_symptom(text, now, fault) ==
    /\ frontend = "cli"
    /\ \E found \in {Extracted[text]} :
       IF found.symptom = None
       THEN /\ fault = "none"
            /\ response' = [op |-> "record_symptom", input |-> text, raised |-> FALSE,
                            reply |-> [kind |-> "no_match", hint |-> SubSeq(symptoms, 1, 10)]]
            /\ UNCHANGED <<stores, appended, nRecorded, nFailed>>
       ELSE \E event \in {SymptomEvent(found, text, now)} :
                /\ CanAppend
                /\ fault # "none" => nFailed < MaxFaults
                /\ symptom_events' = Append(symptom_events, event)
                /\ AddToIndex("symptom " \o event.symptom \o " " \o event.time_of_day,
                              [type |-> "symptom", data |-> event], fault)
                /\ appended' = Append(appended, <<"symptom", Len(symptom_events) + 1>>)
                /\ nRecorded' = IF fault = "none" THEN nRecorded + 1 ELSE nRecorded
                /\ nFailed' = IF fault = "none" THEN nFailed ELSE nFailed + 1
                /\ response' = [op |-> "record_symptom", input |-> text,
                                raised |-> fault # "none",
                                reply |-> IF fault = "none"
                                          THEN [kind |-> "documented", name |-> event.symptom]
                                          ELSE [kind |-> "error"]]
                /\ UNCHANGED medication_events
    /\ UNCHANGED <<frontend, mode, patient_info, loop>>

record_medication(text, now, fault) ==
    /\ frontend = "cli"
    /\ \E found \in {Extracted[text]} :
       IF found.medication = None
       THEN /\ fault = "none"
            /\ response' = [op |-> "record_medication", input |-> text, raised |-> FALSE,
                            reply |-> [kind |-> "no_match", hint |-> SubSeq(medications, 1, 10)]]
            /\ UNCHANGED <<stores, appended, nRecorded, nFailed>>
       ELSE \E event \in {MedicationEvent(found, text, now)} :
                /\ CanAppend
                /\ fault # "none" => nFailed < MaxFaults
                /\ medication_events' = Append(medication_events, event)
                \* the template is given the extracted dose, not the event's
                /\ AddToIndex("medication " \o event.medication \o " " \o found.dose,
                              [type |-> "medication", data |-> event], fault)
                /\ appended' = Append(appended, <<"medication", Len(medication_events) + 1>>)
                /\ nRecorded' = IF fault = "none" THEN nRecorded + 1 ELSE nRecorded
                /\ nFailed' = IF fault = "none" THEN nFailed ELSE nFailed + 1
                /\ response' = [op |-> "record_medication", input |-> text,
                                raised |-> fault # "none",
                                reply |-> IF fault = "none"
                                          THEN [kind |-> "documented", name |-> event.medication]
                                          ELSE [kind |-> "error"]]
                /\ UNCHANGED symptom_events
    /\ UNCHANGED <<frontend, mode, patient_info, loop>>

-----------------------------------------------------------------------------
(* The merged timeline: show_timeline (main.py) and get_timeline            *)
(* (api_server.py) list the symptom events, then the medication events,     *)
(* and sort the list by timestamp with list.sort, which is stable.          *)

\* InsertByTimestamp of a sort that is not stable: x goes before its equals
RECURSIVE InsertByTimestamp_BeforeEquals(_, _)
InsertByTimestamp_BeforeEquals(sorted, x) ==
    IF sorted = <<>> THEN <<x>>
    ELSE IF sorted[Len(sorted)].timestamp < x.timestamp THEN Append(sorted, x)
    ELSE Append(InsertByTimestamp_BeforeEquals(SubSeq(sorted, 1, Len(sorted) - 1), x),
                sorted[Len(sorted)])

\* list.sort(key=timestamp), one step: x goes behind every entry not later than it
RECURSIVE InsertByTimestamp(_, _)
InsertByTimestamp(sorted, x) ==
    IF sorted = <<>> THEN <<x>>
    ELSE IF sorted[Len(sorted)].timestamp <= x.timestamp THEN Append(sorted, x)
    ELSE Append(InsertByTimestamp(SubSeq(sorted, 1, Len(sorted) - 1), x),
                sorted[Len(sorted)])

\* SortByTimestamp without the sort
SortByTimestamp_Unsorted(list) == list

RECURSIVE SortByTimestamp(_)
SortByTimestamp(list) ==
    IF list = <<>> THEN <<>>
    ELSE InsertByTimestamp(SortByTimestamp(SubSeq(list, 1, Len(list) - 1)),
                           list[Len(list)])

\* event.get('time_of_day', 'unknown time')
TimeOrUnknown(event) ==
    IF "time_of_day" \in DOMAIN event THEN event.time_of_day ELSE "unknown time"

\* all_events of get_timeline before the sort; ref is the event an entry was built from
TimelineEntries(sym, med) ==
    [i \in 1..Len(sym) |->
        [type |-> "SYMPTOM", timestamp |-> sym[i].timestamp,
         description |-> sym[i].symptom \o " at " \o TimeOrUnknown(sym[i]),
         ref |-> <<"symptom", i>>]]
    \o
    [i \in 1..Len(med) |->
        [type |-> "MEDICATION", timestamp |-> med[i].timestamp,
         description |-> med[i].medication \o " at " \o TimeOrUnknown(med[i]),
         ref |-> <<"medication", i>>]]

get_timeline(sym, med) == SortByTimestamp(TimelineEntries(sym, med))

\* all_events of show_timeline before the sort; details is the event itself
ShownEntries(sym, med) ==
    [i \in 1..Len(sym) |->
        [type |-> "SYMPTOM", timestamp |-> sym[i].timestamp,
         description |-> sym[i].symptom \o " at " \o sym[i].time_of_day,
         details |-> sym[i], ref |-> <<"symptom", i>>]]
    \o
    [i \in 1..Len(med) |->
        [type |-> "MEDICATION", timestamp |-> med[i].timestamp,
         description |-> med[i].medication \o " " \o med[i].dose
                            \o " at " \o med[i].time_of_day,
         details |-> med[i], ref |-> <<"medication", i>>]]

show_timeline_events(sym, med) == SortByTimestamp(ShownEntries(sym, med))

-----------------------------------------------------------------------------
(* The chat bridge (api_server.py).                                        *)

\* ChatRequest: both fields are optional
ChatRequests ==
    [text : Texts \cup {None, ""}, message : {None}]
    \cup [text : {None, ""}, message : {"", "Patient has headache after breakfast"}]
    \cup {[text |-> "help", message |-> "Gave metformin 1000mg in morning"]}

\* where process_chat_input can be made to fail: in the extractor calls, or
\* inside the handler it hands the text to
ChatFaults == {"none", "extract", "handler"}

\* Truthy as a test for None alone: the empty string passes
Truthy_NotNone(x) == x # None

\* bool(x) of an optional string
Truthy(x) == x # None /\ x # ""

\* request.text or request.message
UserText(request) == IF Truthy(request.text) THEN request.text ELSE request.message

\* clinical_system._extract_symptom / _extract_medication of the running system
SystemExtract(text) ==
    [field \in {"symptom", "medication"} |->
        IF mode = "full" THEN Extracted[text][field] ELSE FallbackExtracted[text][field]]

\* only FallbackSystem has _extract_time
ChatTimeOfDay(text) ==
    IF mode = "fallback" THEN FallbackExtracted[text].time_of_day ELSE "unspecified"

\* ChatBranch with the medication test lost: what is no symptom is a medication
ChatBranch_NoMedicationTest(found, text) ==
    IF found.symptom # None THEN "symptom" ELSE "medication"

\* ChatBranch with the two tests in the other order: a medication goes first
ChatBranch_MedicationFirst(found, text) ==
    IF found.medication # None THEN "medication"
    ELSE IF found.symptom # None THEN "symptom"
    ELSE IF Contains("timeline", Strip(Lower(text))) THEN "timeline"
    ELSE "help"

\* the branch process_chat_input takes, given what the extractors found
ChatBranch(found, text) ==
    IF found.symptom # None THEN "symptom"
    ELSE IF found.medication # None THEN "medication"
    ELSE IF Contains("timeline", Strip(Lower(text))) THEN "timeline"
    ELSE "help"

\* process_symptom assigning a new list where it should append to the old one
process_symptom_Replacing(text, symptom, now) ==
    LET event == [symptom |-> symptom, time_of_day |-> ChatTimeOfDay(text),
                  timestamp |-> now, raw_text |-> text]
    IN  /\ symptom_events' = <<event>>
        /\ appended' = Append(appended, <<"symptom", Len(symptom_events) + 1>>)
        /\ UNCHANGED <<medication_events, faiss_index, event_store>>

process_symptom(text, symptom, now) ==
    LET event == [symptom |-> symptom, time_of_day |-> ChatTimeOfDay(text),
                  timestamp |-> now, raw_text |-> text]
    IN  /\ symptom_events' = Append(symptom_events, event)
        /\ appended' = Append(appended, <<"symptom", Len(symptom_events) + 1>>)
        /\ UNCHANGED <<medication_events, faiss_index, event_store>>

process_medication(text, medication, now) ==
    LET event == [medication |-> medication, time_of_day |-> ChatTimeOfDay(text),
                  timestamp |-> now, raw_text |-> text]
    IN  /\ medication_events' = Append(medication_events, event)
        /\ appended' = Append(appended, <<"medication", Len(medication_events) + 1>>)
        /\ UNCHANGED <<symptom_events, faiss_index, event_store>>

\* the string process_chat_input returns; every exception ends as a string
ChatReply(found, branch, text, fault) ==
    IF fault = "extract" THEN [kind |-> "error_processing"]
    ELSE IF fault = "handler" /\ branch = "symptom" THEN [kind |-> "error_symptom"]
    ELSE IF fault = "handler" /\ branch = "medication" THEN [kind |-> "error_medication"]
    ELSE IF fault = "handler" /\ branch = "timeline" THEN [kind |-> "error_timeline"]
    ELSE IF branch = "symptom"
         THEN [kind |-> "symptom_documented", name |-> found.symptom,
               time |-> ChatTimeOfDay(text)]
    ELSE IF branch = "medication"
         THEN [kind |-> "medication_documented",
               name |-> found.medication, time |-> ChatTimeOfDay(text)]
    ELSE IF branch = "timeline"
         THEN (IF get_timeline(symptom_events, medication_events) = <<>>
               THEN [kind |-> "timeline_empty"]
               ELSE [kind |-> "timeline",
                     entries |-> get_timeline(symptom_events, medication_events)])
    ELSE [kind |-> "help"]

\* POST /api/chat
chat(request, now, fault) ==
    /\ frontend = "api"
    /\ IF ~Truthy(UserText(request))
       THEN /\ fault = "none"
            /\ response' = [op |-> "chat", input |-> request, http |-> 400,
                            raised |-> FALSE, extractor_called |-> FALSE, reply |-> NoReply]
            /\ UNCHANGED <<stores, appended>>
       ELSE \E text \in {UserText(request)} :
            \E found \in {SystemExtract(text)} :
            \E branch \in {ChatBranch(found, text)} :
            \* get_help_message has nothing that can raise
            \E raised \in {fault = "extract" \/ (fault = "handler" /\ branch # "help")} :
                /\ response' = [op |-> "chat", input |-> request, http |-> 200,
                                success |-> TRUE, raised |-> raised,
                                extractor_called |-> TRUE,
                                reply |-> ChatReply(found, branch, text, fault)]
                /\ IF raised \/ branch \in {"timeline", "help"}
                   THEN UNCHANGED <<stores, appended>>
                   ELSE /\ CanAppend
                        /\ IF branch = "symptom"
                           THEN process_symptom(text, found.symptom, now)
                           ELSE process_medication(text, found.medication, now)
    /\ UNCHANGED <<frontend, mode, patient_info, loop, nRecorded, nFailed>>

\* SystemMode blind to the class of the running system
SystemMode_AlwaysFull == "full"

\* "fallback" if isinstance(clinical_system, FallbackSystem) else "full"
SystemMode == IF mode = "fallback" THEN "fallback" ELSE "full"

\* GET /api/patient-info
get_patient_info ==
    /\ frontend = "api"
    /\ response' = [op |-> "patient_info", raised |-> FALSE, reply |-> NoReply,
                    success |-> TRUE, patient_info |-> patient_info,
                    symptom_count |-> Len(symptom_events),
                    medication_count |-> Len(medication_events),
                    system_mode |-> SystemMode]
    /\ UNCHANGED <<frontend, mode, patient_info, loop, stores, appended, nRecorded, nFailed>>

-----------------------------------------------------------------------------
(* The queries of the run loop (main.py): they print and change nothing.   *)

\* show_timeline sorting the stored lists themselves, not the list it built
show_timeline_SortingInPlace ==
    /\ frontend = "cli"
    /\ response' =
        [op |-> "show_timeline", raised |-> FALSE,
         reply |-> IF show_timeline_events(symptom_events, medication_events) = <<>>
                   THEN [kind |-> "timeline_empty"]
                   ELSE [kind |-> "timeline",
                         entries |-> show_timeline_events(symptom_events, medication_events)]]
    /\ symptom_events' = SortByTimestamp(symptom_events)
    /\ medication_events' = SortByTimestamp(medication_events)
    /\ UNCHANGED <<frontend, mode, patient_info, loop, faiss_index, event_store,
                   appended, nRecorded, nFailed>>

show_timeline ==
    /\ frontend = "cli"
    /\ response' =
        [op |-> "show_timeline", raised |-> FALSE,
         reply |-> IF show_timeline_events(symptom_events, medication_events) = <<>>
                   THEN [kind |-> "timeline_empty"]
                   ELSE [kind |-> "timeline",
                         entries |-> show_timeline_events(symptom_events, medication_events)]]
    /\ UNCHANGED <<frontend, mode, patient_info, loop, stores, appended, nRecorded, nFailed>>

\* the names asked for: any case, and a name that is only part of a stored one
FrequencyNames == {"HEADACHE", "head", "Metformin"}

\* str.lower() of the names that are stored and asked for
LowerName ==
    [n \in Range(symptoms) \cup Range(medications) \cup FrequencyNames |-> Lower(n)]

\* MatchingEvents taking a name that is part of the stored one for a match
MatchingEvents_Substring(events, field, name) ==
    SelectSeq(events, LAMBDA event : Contains(LowerName[name], LowerName[event[field]]))

\* matching_events of symptom_frequency / medication_frequency
MatchingEvents(events, field, name) ==
    SelectSeq(events, LAMBDA event : LowerName[event[field]] = LowerName[name])

symptom_frequency(symptom) ==
    /\ frontend = "cli"
    /\ response' =
        [op |-> "symptom_frequency", input |-> symptom, raised |-> FALSE,
         reply |-> IF MatchingEvents(symptom_events, "symptom", symptom) = <<>>
                   THEN [kind |-> "no_instances"]
                   ELSE [kind |-> "frequency",
                         records |-> MatchingEvents(symptom_events, "symptom", symptom)]]
    /\ UNCHANGED <<frontend, mode, patient_info, loop, stores, appended, nRecorded, nFailed>>

medication_frequency(medication) ==
    /\ frontend = "cli"
    /\ response' =
        [op |-> "medication_frequency", input |-> medication, raised |-> FALSE,
         reply |-> IF MatchingEvents(medication_events, "medication", medication) = <<>>
                   THEN [kind |-> "no_instances"]
                   ELSE [kind |-> "frequency",
                         records |-> MatchingEvents(medication_events, "medication", medication)]]
    /\ UNCHANGED <<frontend, mode, patient_info, loop, stores, appended, nRecorded, nFailed>>

-----------------------------------------------------------------------------
(* NursingNoteGenerator (process.py) and the commands that call it.        *)

\* event.get(key, default): the default only when the key is absent
Get(event, key, default) == IF key \in DOMAIN event THEN event[key] ELSE default

\* a value an if takes as true: not None, not the empty string
Present(x) == x # None /\ x # ""

\* ', '.join(list)
RECURSIVE Join(_)
Join(list) ==
    IF list = <<>> THEN ""
    ELSE IF Len(list) = 1 THEN list[1]
    ELSE list[1] \o ", " \o Join(Tail(list))

\* _generate_deterministic with sampling: the text changes with what the
\* session has done before
_generate_deterministic_Sampling(prompt) ==
    [generated_for |-> prompt, draw |-> Len(appended) + nFailed]

\* _generate_deterministic: beam search without sampling, the same prompt
\* gives the same text
_generate_deterministic(prompt) == [generated_for |-> prompt]

SymptomClause(event) ==
    LET food == Get(event, "relation_to_food", "no food relation noted")
        freq == Get(event, "frequency_marker", "")
    IN  Get(event, "symptom", "unknown") \o " at "
            \o Get(event, "time_of_day", "unspecified time")
            \o (IF Present(food) /\ food # "no food relation noted"
                THEN " " \o food ELSE "")
            \o (IF Present(freq) THEN " (" \o freq \o ")" ELSE "")

NursingNotePrompt(events) ==
    "Write a nursing documentation note based on these reported symptoms. "
    \o "Do not diagnose or interpret. Only document what was reported. "
    \o "Use professional nursing language. "
    \o "Symptoms: " \o Join([i \in 1..Len(events) |-> SymptomClause(events[i])]) \o ". "
    \o "Documentation note:"

\* generate_nursing_note without its first lines: the empty list goes to the
\* model like any other
NoteGenerator_generate_nursing_note_NoGuard(events) ==
    [text |-> [header |-> "=== SYMPTOM DOCUMENTATION ===\n",
               note   |-> _generate_deterministic(NursingNotePrompt(events)),
               footer |-> "\n\nNote: This is documentation only. No clinical interpretation provided."],
     gen_calls |-> 1]

\* NursingNoteGenerator.generate_nursing_note: the text and the calls it made
NoteGenerator_generate_nursing_note(events) ==
    IF events = <<>>
    THEN [text |-> [placeholder |-> "No symptoms documented during this period."],
          gen_calls |-> 0]
    ELSE [text |-> [header |-> "=== SYMPTOM DOCUMENTATION ===\n",
                    note   |-> _generate_deterministic(NursingNotePrompt(events)),
                    footer |-> "\n\nNote: This is documentation only. No clinical interpretation provided."],
          gen_calls |-> 1]

MedicationClause(event) ==
    LET food == Get(event, "relation_to_food", "")
    IN  Get(event, "medication", "unknown medication") \o " "
            \o Get(event, "dose", "dose not specified") \o " via "
            \o Get(event, "route", "oral") \o " at "
            \o Get(event, "time_of_day", "unspecified time")
            \o (IF Present(food) THEN " " \o food ELSE "")

MedicationNotePrompt(events) ==
    "Write a medication administration record note. "
    \o "Do not provide dosage advice or recommendations. "
    \o "Only document what was taken as reported. "
    \o "Use professional nursing language. "
    \o "Medications: " \o Join([i \in 1..Len(events) |-> MedicationClause(events[i])]) \o ". "
    \o "MAR note:"

\* NursingNoteGenerator.generate_medication_note
NoteGenerator_generate_medication_note(events) ==
    IF events = <<>>
    THEN [text |-> [placeholder |-> "No medications documented during this period."],
          gen_calls |-> 0]
    ELSE [text |-> [header |-> "=== MEDICATION ADMINISTRATION RECORD ===\n",
                    note   |-> _generate_deterministic(MedicationNotePrompt(events)),
                    footer |-> "\n\nNote: Patient-reported intake. Documentation only."],
          gen_calls |-> 1]

\* where a note command can be made to fail: the model's generate call
NoteFaults == {"none", "generate"}

\* the reply of a note command of the run loop
NoteReply(events, generated, fault) ==
    IF events = <<>> THEN [kind |-> "cannot_generate", gen_calls |-> 0]
    ELSE IF fault = "generate" THEN [kind |-> "error", gen_calls |-> generated.gen_calls]
    ELSE [kind |-> "note", text |-> generated.text, gen_calls |-> generated.gen_calls]

generate_nursing_note(fault) ==
    /\ frontend = "cli"
    /\ fault = "generate" => symptom_events # <<>>
    /\ response' =
        [op |-> "generate_nursing_note",
         raised |-> fault = "generate",
         reply |-> NoteReply(symptom_events,
                             NoteGenerator_generate_nursing_note(symptom_events), fault)]
    /\ UNCHANGED <<frontend, mode, patient_info, loop, stores, appended, nRecorded, nFailed>>

generate_medication_note(fault) ==
    /\ frontend = "cli"
    /\ fault = "generate" => medication_events # <<>>
    /\ response' =
        [op |-> "generate_medication_note",
         raised |-> fault = "generate",
         reply |-> NoteReply(medication_events,
                             NoteGenerator_generate_medication_note(medication_events), fault)]
    /\ UNCHANGED <<frontend, mode, patient_info, loop, stores, appended, nRecorded, nFailed>>

Next ==
    \/ \E text \in RecordTexts, now \in NowValues, fault \in RecordFaults :
           record_symptom(text, now, fault)
    \/ \E text \in RecordTexts, now \in NowValues, fault \in RecordFaults :
           record_medication(text, now, fault)

    \/ \E request \in ChatRequests, now \in NowValues, fault \in ChatFaults :
           chat(request, now, fault)
    \/ get_patient_info
    \/ show_timeline
    \/ \E name \in FrequencyNames : symptom_frequency(name)
    \/ \E name \in FrequencyNames : medication_frequency(name)
    \/ \E fault \in NoteFaults : generate_nursing_note(fault)
    \/ \E fault \in NoteFaults : generate_medication_note(fault)

Spec == Init /\ [][Next]_vars

-----------------------------------------------------------------------------
(* The extractors on their own: a text is given, and one extractor of the  *)
(* system that is running is called on it.                                 *)

\* what a nurse's text is made of: names in any case, a clock time, meals
Words ==
    { "HEADACHE", "chest pain", "Back Pain", "Aspirin", "metformin",
      "9:30 pm", "breakfast", "dinner" }

\* the texts of at most n words
RECURSIVE Phrases(_)
Phrases(n) ==
    IF n = 0 THEN {""}
    ELSE Phrases(n - 1)
            \cup {IF p = "" THEN w ELSE p \o " " \o w : p \in Phrases(n - 1), w \in Words}

ExtractTexts == Phrases(MaxWords)

ExtractInit ==
    /\ frontend \in {"cli", "api"}
    /\ mode \in {"full", "fallback"}
    /\ frontend = "cli" => mode = "full"
    /\ patient_info = SeedPatientInfo
    /\ symptom_events = IF mode = "full" THEN SeedSymptomEvents ELSE <<>>
    /\ medication_events = IF mode = "full" THEN SeedMedicationEvents ELSE <<>>
    /\ faiss_index = <<>>
    /\ event_store = <<>>
    /\ \E text \in ExtractTexts :
          response = [op |-> "text", input |-> text, raised |-> FALSE, reply |-> NoReply]
    /\ appended = IF mode = "full"
                  THEN << <<"symptom", 1>>, <<"symptom", 2>>,
                          <<"medication", 1>>, <<"medication", 2>> >>
                  ELSE <<>>
    /\ nRecorded = 0
    /\ nFailed = 0
    /\ tasks = <<>>
    /\ current = 0

\* the response of an extractor called on the text that was given
Extracting(system, extractor, found) ==
    /\ response.op = "text"
    /\ mode = system
    /\ response' = [op |-> extractor, input |-> response.input, raised |-> FALSE,
                    reply |-> [found |-> found]]
    /\ UNCHANGED <<frontend, mode, patient_info, loop, stores, appended, nRecorded, nFailed>>

call_extract_symptom ==
    Extracting("full", "_extract_symptom", _extract_symptom(response.input))

call_extract_medication ==
    Extracting("full", "_extract_medication", _extract_medication(response.input))

call_extract_time_of_day ==
    Extracting("full", "_extract_time_of_day", _extract_time_of_day(response.input))

call_Fallback_extract_symptom ==
    Extracting("fallback", "_extract_symptom", Fallback_extract_symptom(response.input))

call_Fallback_extract_medication ==
    Extracting("fallback", "_extract_medication", Fallback_extract_medication(response.input))

call_Fallback_extract_time ==
    Extracting("fallback", "_extract_time", Fallback_extract_time(response.input))

ExtractNext ==
    \/ call_extract_symptom
    \/ call_extract_medication
    \/ call_extract_time_of_day
    \/ call_Fallback_extract_symptom
    \/ call_Fallback_extract_medication
    \/ call_Fallback_extract_time

ExtractSpec == ExtractInit /\ [][ExtractNext]_vars

-----------------------------------------------------------------------------
(* The note generator on its own: a list of events is given, and one of    *)
(* its two methods is called on it.                                        *)

\* events as the streams hold them: seeded ones, and ones the chat bridge
\* builds, which have fewer fields
SampleEvents ==
    { SeedSymptomEvents[1], SeedSymptomEvents[2],
      [symptom |-> "headache", time_of_day |-> "unspecified", timestamp |-> 5,
       raw_text |-> "Patient has headache after breakfast"],
      SeedMedicationEvents[1], SeedMedicationEvents[2],
      [medication |-> "metformin", time_of_day |-> "morning", timestamp |-> 6,
       raw_text |-> "Gave metformin 1000mg in morning"] }

\* the lists of at most n of them
RECURSIVE EventLists(_)
EventLists(n) ==
    IF n = 0 THEN {<<>>}
    ELSE EventLists(n - 1)
            \cup {Append(list, event) : list \in EventLists(n - 1), event \in SampleEvents}

NoteInit ==
    /\ frontend = "cli"
    /\ mode = "full"
    /\ patient_info = SeedPatientInfo
    /\ symptom_events = SeedSymptomEvents
    /\ medication_events = SeedMedicationEvents
    /\ faiss_index = <<>>
    /\ event_store = <<>>
    /\ \E events \in EventLists(MaxEvents) :
          response = [op |-> "events", input |-> events, raised |-> FALSE, reply |-> NoReply]
    /\ appended = << <<"symptom", 1>>, <<"symptom", 2>>,
                     <<"medication", 1>>, <<"medication", 2>> >>
    /\ nRecorded = 0
    /\ nFailed = 0
    /\ tasks = <<>>
    /\ current = 0

\* the response of a method of the note generator called on the list given
Generating(method, generated) ==
    /\ response.op = "events"
    /\ response' = [op |-> method, input |-> response.input, raised |-> FALSE,
                    reply |-> generated]
    /\ UNCHANGED <<frontend, mode, patient_info, loop, stores, appended, nRecorded, nFailed>>

call_generate_nursing_note ==
    Generating("generate_nursing_note", NoteGenerator_generate_nursing_note(response.input))

call_generate_medication_note ==
    Generating("generate_medication_note",
               NoteGenerator_generate_medication_note(response.input))

NoteNext ==
    \/ call_generate_nursing_note
    \/ call_generate_medication_note

NoteSpec == NoteInit /\ [][NoteNext]_vars

-----------------------------------------------------------------------------
(* Chat requests in flight (api_server.py).  uvicorn.run serves the app in *)
(* one process with one event loop; chat is a coroutine, and the loop runs *)
(* a coroutine until it awaits or returns.  The handler is followed step   *)
(* by step: the test of the text, the extractor calls, the handler that    *)
(* appends, the return.                                                    *)

LoopRequests == {[text |-> text, message |-> None] : text \in LoopTexts}

NoRef == <<"none", 0>>

LoopInit ==
    /\ frontend = "api"
    /\ mode \in {"full", "fallback"}
    /\ patient_info = SeedPatientInfo
    /\ symptom_events = IF mode = "full" THEN SeedSymptomEvents ELSE <<>>
    /\ medication_events = IF mode = "full" THEN SeedMedicationEvents ELSE <<>>
    /\ faiss_index = <<>>
    /\ event_store = <<>>
    /\ response = [op |-> "init", raised |-> FALSE, reply |-> NoReply]
    /\ appended = IF mode = "full"
                  THEN << <<"symptom", 1>>, <<"symptom", 2>>,
                          <<"medication", 1>>, <<"medication", 2>> >>
                  ELSE <<>>
    /\ nRecorded = 0
    /\ nFailed = 0
    /\ tasks = <<>>
    /\ current = 0

\* chat with a step handed to a worker thread: it gives up the loop there
Yields_InThread(pc) == pc # "done"

\* whether chat gives up the event loop when it has come to pc: it awaits
\* nothing, from its first line to its return
Yields(pc) == FALSE

\* the event loop takes the coroutines that are ready in the order they came
IsNextToRun(i) ==
    IF tasks[i].pc = "ready"
    THEN \A j \in 1..(i - 1) : tasks[j].pc # "ready"
    ELSE tasks[i].pc # "done"

\* task i can take a step: it has the loop, or the loop is free and it is next
Runnable(i) ==
    /\ i \in 1..Len(tasks)
    /\ tasks[i].pc # "done"
    /\ current = i \/ (current = 0 /\ IsNextToRun(i))

\* task i has come to pc with its fields as in task
Advance(i, task, pc) ==
    /\ tasks' = [tasks EXCEPT ![i] = [task EXCEPT !.pc = pc]]
    /\ current' = IF pc = "done" \/ Yields(pc) THEN 0 ELSE i

\* a request arrives and its coroutine is made ready
accept(request) ==
    /\ Len(tasks) < MaxRequests
    /\ tasks' = Append(tasks, [request |-> request, pc |-> "ready",
                               found |-> [symptom |-> None, medication |-> None],
                               ref |-> NoRef, http |-> 0, reply |-> NoReply,
                               \* history: the task that had the loop just then
                               came_during |-> current])
    /\ UNCHANGED <<frontend, mode, patient_info, stores, response, appended,
                   nRecorded, nFailed, current>>

\* lines 304-307: the text of the request, and the 400 when there is none
chat_begin(i) ==
    /\ Runnable(i)
    /\ tasks[i].pc = "ready"
    /\ IF Truthy(UserText(tasks[i].request))
       THEN /\ Advance(i, tasks[i], "extract")
            /\ UNCHANGED response
       ELSE /\ Advance(i, [tasks[i] EXCEPT !.http = 400], "done")
            /\ response' = [op |-> "chat", input |-> tasks[i].request, http |-> 400,
                            raised |-> FALSE, extractor_called |-> FALSE, reply |-> NoReply]
    /\ UNCHANGED <<frontend, mode, patient_info, stores, appended, nRecorded, nFailed>>

\* process_chat_input, lines 132-133: the two extractor calls
chat_extract(i) ==
    /\ Runnable(i)
    /\ tasks[i].pc = "extract"
    /\ Advance(i, [tasks[i] EXCEPT !.found = SystemExtract(UserText(tasks[i].request))],
               "dispatch")
    /\ UNCHANGED <<frontend, mode, patient_info, stores, response, appended,
                   nRecorded, nFailed>>

\* process_chat_input, lines 135-144: the handler of the branch
chat_dispatch(i, now) ==
    /\ Runnable(i)
    /\ tasks[i].pc = "dispatch"
    /\ \E text \in {UserText(tasks[i].request)} :
       \E branch \in {ChatBranch(tasks[i].found, text)} :
          /\ IF branch = "symptom"
             THEN /\ process_symptom(text, tasks[i].found.symptom, now)
                  /\ Advance(i, [tasks[i] EXCEPT
                                    !.ref = <<"symptom", Len(symptom_events) + 1>>,
                                    !.reply = ChatReply(tasks[i].found, branch, text, "none")],
                             "return")
             ELSE IF branch = "medication"
             THEN /\ process_medication(text, tasks[i].found.medication, now)
                  /\ Advance(i, [tasks[i] EXCEPT
                                    !.ref = <<"medication", Len(medication_events) + 1>>,
                                    !.reply = ChatReply(tasks[i].found, branch, text, "none")],
                             "return")
             ELSE /\ UNCHANGED <<stores, appended>>
                  /\ Advance(i, [tasks[i] EXCEPT
                                    !.reply = ChatReply(tasks[i].found, branch, text, "none")],
                             "return")
    /\ UNCHANGED <<frontend, mode, patient_info, response, nRecorded, nFailed>>

\* lines 314-317: the reply goes back
chat_return(i) ==
    /\ Runnable(i)
    /\ tasks[i].pc = "return"
    /\ Advance(i, [tasks[i] EXCEPT !.http = 200], "done")
    /\ response' = [op |-> "chat", input |-> tasks[i].request, http |-> 200,
                    success |-> TRUE, raised |-> FALSE, extractor_called |-> TRUE,
                    reply |-> tasks[i].reply]
    /\ UNCHANGED <<frontend, mode, patient_info, stores, appended, nRecorded, nFailed>>

LoopNext ==
    \/ \E request \in LoopRequests : accept(request)
    \/ \E i \in 1..MaxRequests : chat_begin(i)
    \/ \E i \in 1..MaxRequests : chat_extract(i)
    \/ \E i \in 1..MaxRequests, now \in NowValues : chat_dispatch(i, now)
    \/ \E i \in 1..MaxRequests : chat_return(i)

LoopSpec == LoopInit /\ [][LoopNext]_vars

-----------------------------------------------------------------------------
(* What the claims speak of.                                               *)

\* the stored event a reference names
EventAt(ref) ==
    IF ref[1] = "symptom" THEN symptom_events[ref[2]] ELSE medication_events[ref[2]]

AllRefs ==
    {<<"symptom", i>> : i \in 1..Len(symptom_events)}
        \cup {<<"medication", i>> : i \in 1..Len(medication_events)}

\* when the event was appended: its place in the order of all appends
AppendRank(ref) == CHOOSE k \in 1..Len(appended) : appended[k] = ref

\* the place of the event in the list the timeline sorts: symptoms, then medications
ListRank(ref) == IF ref[1] = "symptom" THEN ref[2] ELSE Len(symptom_events) + ref[2]

\* the merged timeline the running front end shows
Timeline ==
    IF frontend = "cli" THEN show_timeline_events(symptom_events, medication_events)
    ELSE get_timeline(symptom_events, medication_events)

IsRecordOp(r) == r.op \in {"record_symptom", "record_medication"}

\* an event appended after initialization (the seeded ones have no raw_text)
IsNew(ref) == "raw_text" \in DOMAIN EventAt(ref)

\* C1: in every reachable state the Vector Index has as many entries as the
\* Timeline Store has events (symptom and medication streams together), and
\* the i-th index entry refers to the i-th appended event.
C1_IndexMatchesTimeline ==
    /\ Len(faiss_index) = Len(symptom_events) + Len(medication_events)
    /\ Len(event_store) = Len(faiss_index)
    /\ \A i \in 1..Len(event_store) :
          i <= Len(appended) /\ event_store[i].data = EventAt(appended[i])

\* C2: a record operation in which a collaborator raises (the embedding call,
\* the vector-store add or the reference-store append) leaves the Timeline
\* Store, the vector store and the reference store as they were before it.
C2_FailedRecordChangesNothing ==
    [][(IsRecordOp(response') /\ response'.raised) => UNCHANGED stores]_vars

\* C3: after N record operations that ran to their end the reference list has
\* N entries, and so has the Vector Index after N record operations none of
\* which was cut short; each such operation grows both by exactly one.
C3_RecordGrowsIndexByOne ==
    /\ [](/\ Len(event_store) = nRecorded
          /\ nFailed = 0 => Len(faiss_index) = nRecorded)
    /\ [][nRecorded' = nRecorded + 1 =>
            /\ Len(faiss_index') = Len(faiss_index) + 1
            /\ Len(event_store') = Len(event_store) + 1]_vars

\* a session in which record operations of both kinds ran to their end
C3_Witness ==
    /\ nRecorded = 2
    /\ Len(symptom_events) > Len(SeedSymptomEvents)
    /\ Len(medication_events) > Len(SeedMedicationEvents)
    /\ Len(faiss_index) = 2

\* C4: the Timeline Store is append-only: across every operation each stream
\* before the operation is a prefix of the same stream after it.
C4_AppendOnly ==
    [][/\ IsPrefix(symptom_events, symptom_events')
       /\ IsPrefix(medication_events, medication_events')]_vars

\* a query answered after both streams have grown
C4_Witness ==
    /\ response.op \in {"show_timeline", "patient_info"}
    /\ \E ref \in AllRefs : ref[1] = "symptom" /\ IsNew(ref)
    /\ \E ref \in AllRefs : ref[1] = "medication" /\ IsNew(ref)

\* the text the operation of a response was given
GivenText(r) == IF r.op = "chat" THEN UserText(r.input) ELSE r.input

\* the running system recognizes nothing the operation looks for in its text
NothingRecognized(r) ==
    \/ r.op = "record_symptom" /\ Extracted[r.input].symptom = None
    \/ r.op = "record_medication" /\ Extracted[r.input].medication = None
    \/ /\ r.op = "chat" /\ r.http = 200
       /\ IF mode = "full"
          THEN Extracted[GivenText(r)].symptom = None
                  /\ Extracted[GivenText(r)].medication = None
          ELSE FallbackExtracted[GivenText(r)].symptom = None
                  /\ FallbackExtracted[GivenText(r)].medication = None

C6_ExceptionIsReportedAsFailure ==
    (response.op = "chat" /\ response.raised) => response.success = FALSE

\* C7: in fallback mode Submit-text still extracts and appends the events it
\* recognizes, and the patient summary reports a mode that is not "full".
C7_FallbackStillRecords ==
    [][mode = "fallback" =>
          /\ response'.op = "patient_info" =>
                /\ response'.system_mode # "full"
                /\ response'.symptom_count = Len(symptom_events)
                /\ response'.medication_count = Len(medication_events)
          /\ (response'.op = "chat" /\ response'.http = 200 /\ ~response'.raised) =>
                LET text  == GivenText(response')
                    found == FallbackExtracted[text]
                IN  /\ found.symptom # None =>
                          /\ Len(symptom_events') = Len(symptom_events) + 1
                          /\ symptom_events'[Len(symptom_events')].symptom = found.symptom
                          /\ symptom_events'[Len(symptom_events')].raw_text = text
                    /\ (found.symptom = None /\ found.medication # None) =>
                          /\ Len(medication_events') = Len(medication_events) + 1
                          /\ medication_events'[Len(medication_events')].medication
                                = found.medication
                          /\ medication_events'[Len(medication_events')].raw_text = text]_vars

\* the summary of a fallback system that has recorded events of both kinds
C7_Witness ==
    /\ mode = "fallback"
    /\ response.op = "patient_info"
    /\ response.system_mode = "fallback"
    /\ response.symptom_count > 0
    /\ response.medication_count > 0

\* a field that is missing or empty
Blank(x) == x = None \/ x = ""

\* C8, as claimed: a Submit-text request whose text is empty or missing is
\* rejected with a client error before the Extractor is called, and changes
\* neither stream nor the Vector Index.
C8_EmptyTextRejected ==
    [][(response'.op = "chat" /\ Blank(response'.input.text)) =>
          /\ response'.http = 400
          /\ ~response'.extractor_called
          /\ UNCHANGED stores]_vars

\* C8, amended: a Submit-text request in which both text and message are
\* empty or missing is rejected with a client error before the Extractor is
\* called, and changes neither stream nor the Vector Index.
C8_EmptyPayloadRejected ==
    [][(/\ response'.op = "chat"
        /\ Blank(response'.input.text)
        /\ Blank(response'.input.message)) =>
          /\ response'.http = 400
          /\ ~response'.extractor_called
          /\ UNCHANGED stores]_vars

\* an empty request was rejected by a system that holds events
C8_Witness ==
    /\ response.op = "chat"
    /\ response.input.text = ""
    /\ Blank(response.input.message)
    /\ response.http = 400
    /\ Len(symptom_events) > 0

\* the timeline lists each stored event once, with its own timestamp and type
TimelineListsEveryEvent(tl) ==
    /\ Len(tl) = Len(symptom_events) + Len(medication_events)
    /\ \A ref \in AllRefs :
          /\ Cardinality({i \in 1..Len(tl) : tl[i].ref = ref}) = 1
          /\ \A i \in 1..Len(tl) :
                tl[i].ref = ref =>
                   /\ tl[i].timestamp = EventAt(ref).timestamp
                   /\ tl[i].type = (IF ref[1] = "symptom" THEN "SYMPTOM" ELSE "MEDICATION")

\* C9: the global timeline holds every stored event exactly once, so the one
\* appended last too, is non-decreasing in timestamp, and is the empty list
\* on an empty store; the timeline a request is answered with is that list.
C9_TimelineSortedAndComplete ==
    /\ TimelineListsEveryEvent(Timeline)
    /\ \A i \in 1..(Len(Timeline) - 1) : Timeline[i].timestamp <= Timeline[i + 1].timestamp
    /\ AllRefs = {} => Timeline = <<>>
    /\ (response.op \in {"chat", "show_timeline"} /\ response.reply.kind = "timeline") =>
          response.reply.entries = Timeline
    /\ (response.op \in {"chat", "show_timeline"} /\ response.reply.kind = "timeline_empty") =>
          AllRefs = {}

\* the timeline was shown after an event was appended with an earlier
\* clock reading than an event appended before it
C9_Witness ==
    /\ response.op \in {"chat", "show_timeline"}
    /\ response.reply.kind = "timeline"
    /\ \E a, b \in AllRefs :
          /\ IsNew(a) /\ IsNew(b)
          /\ AppendRank(a) < AppendRank(b)
          /\ EventAt(a).timestamp > EventAt(b).timestamp

\* C10, as claimed: two events with equal timestamps stand in the timeline in
\* the order in which they were appended, also when one is a symptom event
\* and the other a medication event.
C10_TiesInAppendOrder ==
    \A i, j \in 1..Len(Timeline) :
        (i < j /\ Timeline[i].timestamp = Timeline[j].timestamp) =>
            AppendRank(Timeline[i].ref) < AppendRank(Timeline[j].ref)

\* C10, amended: two events with equal timestamps stand in the timeline in
\* the order of the list that is sorted: events of one stream in the order
\* they were appended, and a symptom event before a medication event,
\* whichever of the two was appended first.
C10_TiesInListOrder ==
    \A i, j \in 1..Len(Timeline) :
        (i < j /\ Timeline[i].timestamp = Timeline[j].timestamp) =>
            ListRank(Timeline[i].ref) < ListRank(Timeline[j].ref)

\* a medication event and a symptom event appended after it have the same
\* timestamp
C10_Witness ==
    \E a, b \in AllRefs :
        /\ a[1] = "medication" /\ b[1] = "symptom"
        /\ AppendRank(a) < AppendRank(b)
        /\ EventAt(a).timestamp = EventAt(b).timestamp

\* the response of a query: the timeline or a frequency report
IsQuery(r) ==
    \/ r.op \in {"show_timeline", "symptom_frequency", "medication_frequency"}
    \/ r.op = "chat" /\ r.reply.kind \in {"timeline", "timeline_empty"}

\* the argument a query was called with
QueryArg(r) ==
    IF r.op = "chat" THEN GivenText(r)
    ELSE IF r.op = "show_timeline" THEN None
    ELSE r.input

\* C11: a query (the timeline, a symptom or a medication frequency report)
\* leaves both streams, the Vector Index, the reference store and the patient
\* information as they were, and a query that follows the same query with the
\* same argument, nothing appended between them, gives the same result.
C11_QueriesChangeNothing ==
    [][IsQuery(response') =>
          /\ UNCHANGED <<stores, patient_info>>
          /\ (/\ IsQuery(response)
              /\ response.op = response'.op
              /\ QueryArg(response) = QueryArg(response')) =>
                 response'.reply = response.reply]_vars

\* a frequency report that lists a seeded and an appended event
C11_Witness ==
    /\ response.op = "symptom_frequency"
    /\ response.reply.kind = "frequency"
    /\ Len(response.reply.records) = 2
    /\ Grown > 0

\* the records a frequency report lists; none when it reports no instances
ReportedRecords(r) == IF r.reply.kind = "frequency" THEN r.reply.records ELSE <<>>

\* where the events named name, whatever the case of the letters, stand in a stream
NamedAt(events, field, name) ==
    {i \in 1..Len(events) : LowerName[events[i][field]] = LowerName[name]}

\* records is the events at those places and no other, in the order of the stream
IsSelection(records, events, places) ==
    /\ Len(records) = Cardinality(places)
    /\ \A i \in places :
          records[Cardinality({j \in places : j <= i})] = events[i]

\* C12: a frequency report lists exactly the events of its stream whose name
\* is the name asked for, the case of the letters ignored and a name that is
\* only part of the stored one not counted, in the order they were appended;
\* when there is none it reports no instances and raises nothing.
C12_FrequencyListsExactMatches ==
    /\ response.op = "symptom_frequency" =>
          /\ IsSelection(ReportedRecords(response), symptom_events,
                         NamedAt(symptom_events, "symptom", response.input))
          /\ ~response.raised
    /\ response.op = "medication_frequency" =>
          /\ IsSelection(ReportedRecords(response), medication_events,
                         NamedAt(medication_events, "medication", response.input))
          /\ ~response.raised
    /\ response.op = "symptom_frequency" =>
          (response.reply.kind = "no_instances"
              <=> NamedAt(symptom_events, "symptom", response.input) = {})
    /\ response.op = "medication_frequency" =>
          (response.reply.kind = "no_instances"
              <=> NamedAt(medication_events, "medication", response.input) = {})

\* a report asked for in capitals lists two of the three stored symptom
\* events, the seeded one before the appended one
C12_Witness ==
    /\ response.op = "symptom_frequency"
    /\ response.input = "HEADACHE"
    /\ Len(ReportedRecords(response)) = 2
    /\ Len(symptom_events) = 3
    /\ response.reply.records[2] = symptom_events[3]

\* the response of the symptom or the medication extractor called on its own
IsNameExtraction(r) == r.op \in {"_extract_symptom", "_extract_medication"}

\* the vocabulary the extractor of a response goes through, in its order
VocabularyOf(r) ==
    IF r.op = "_extract_symptom"
    THEN (IF mode = "full" THEN symptoms ELSE FallbackSymptoms)
    ELSE (IF mode = "full" THEN medications ELSE FallbackMedications)

\* the word occurs in the text, whatever the case of the text's letters
Occurs(word, text) == Contains(word, Lower(text))

\* the places of the entries of a vocabulary that occur in a lower-case text
OccurringIn(vocabulary, t) ==
    {i \in 1..Len(vocabulary) : Contains(vocabulary[i], t)}

\* found is the first of the vocabulary entries at those places, wherever in
\* the text they stand, and None when there is none
IsFirstOf(found, vocabulary, places) ==
    /\ found = None <=> places = {}
    /\ places # {} =>
          /\ found = vocabulary[Min(places)]
          /\ Cardinality(places) = 1 => \A i \in places : found = vocabulary[i]

\* the extractor of a response found the first vocabulary entry, in
\* vocabulary order, that occurs in its text
FoundFirstInVocabularyOrder(r) ==
    IsFirstOf(r.reply.found, VocabularyOf(r),
              OccurringIn(VocabularyOf(r), Lower(r.input)))

\* the lower-case text holds all of the first set of words, none of the second
HoldsButNot(t, with, without) ==
    /\ \A w \in with : Contains(w, t)
    /\ \A w \in without : ~Contains(w, t)

\* C13, as claimed: the symptom and the medication extractor return the first
\* vocabulary entry, in vocabulary order, that occurs in the text, and None
\* when none occurs; a text with one vocabulary symptom gives that symptom,
\* and a text with both "chest pain" and "back pain" always gives "chest pain".
C13_ChestPainAlwaysWins ==
    IsNameExtraction(response) =>
        /\ FoundFirstInVocabularyOrder(response)
        /\ (/\ response.op = "_extract_symptom"
            /\ HoldsButNot(Lower(response.input), {"chest pain", "back pain"}, {})) =>
               response.reply.found = "chest pain"

\* C13, amended: the same, but a text with both "chest pain" and "back pain"
\* gives "chest pain" when it does not hold "headache", the one entry that
\* stands before "chest pain" in the vocabulary.
C13_FirstInVocabularyOrder ==
    IsNameExtraction(response) =>
        /\ FoundFirstInVocabularyOrder(response)
        /\ (/\ response.op = "_extract_symptom"
            /\ HoldsButNot(Lower(response.input), {"chest pain", "back pain"},
                           {"headache"})) =>
               response.reply.found = "chest pain"

\* "back pain" stands before "chest pain" in the text, and "chest pain" is found
C13_Witness ==
    /\ response.op = "_extract_symptom"
    /\ response.input = "Back Pain chest pain"
    /\ response.reply.found = "chest pain"

\* the response of a time-of-day extractor called on its own
IsTimeExtraction(r) == r.op \in {"_extract_time_of_day", "_extract_time"}

\* u is a clock time: one or two digits, maybe a colon, maybe two digits of
\* minutes, maybe white space, then am or pm
IsClockString(u) ==
    \E h \in {1, 2}, c \in {0, 1}, m \in {0, 2} :
        /\ Len(u) >= h + c + m + 2
        /\ AllDigits(u, 1, h)
        /\ c = 1 => MatchAt(":", u, h + 1)
        /\ AllDigits(u, h + c + 1, m)
        /\ SkipSpaces(u, h + c + m + 1) = Len(u) - 1
        /\ SubSeq(u, Len(u) - 1, Len(u)) \in {"am", "pm"}

\* the clock times written in a lower-case text
ClockStringsOf(t) ==
    {u \in {SubSeq(t, i, j) : i \in {k \in 1..Len(t) : IsDigit(SubSeq(t, k, k))},
                              j \in 1..Len(t)} : IsClockString(u)}

\* the clock times written in a text
ClockStringsIn(text) == ClockStringsOf(Lower(text))

\* the categories a keyword of which occurs in the text, by their place in
\* the order morning, afternoon, evening, night
CategoriesIn(text) ==
    {k \in 1..Len(time_patterns) :
        \E n \in 1..Len(time_patterns[k].patterns) :
            Occurs(time_patterns[k].patterns[n], text)}

\* C14: a time-of-day extractor returns a clock time written in the text
\* whenever there is one, also when a keyword of a category occurs too;
\* otherwise the first of morning, afternoon, evening, night a keyword of
\* which occurs in the text; otherwise "unspecified time".
C14_ClockTimeThenCategory ==
    IsTimeExtraction(response) =>
        IF ClockStringsIn(response.input) # {}
        THEN response.reply.found \in ClockStringsIn(response.input)
        ELSE IF CategoriesIn(response.input) # {}
        THEN response.reply.found = time_patterns[Min(CategoriesIn(response.input))].key
        ELSE response.reply.found = "unspecified time"

\* the operation of a response was given the text and ran to its end
RanOn(r, text) ==
    /\ r.op \in {"record_medication", "chat"}
    /\ r.op = "chat" => r.http = 200
    /\ GivenText(r) = text
    /\ ~r.raised

\* C15: the text "Gave metformin 1000mg in morning", given to record-medication
\* or to Submit-text, appends exactly one medication event, and that event has
\* medication "metformin", dose "1000mg" and time_of_day "morning".
C15_MetforminEndToEnd ==
    [][RanOn(response', "Gave metformin 1000mg in morning") =>
          /\ Len(medication_events') = Len(medication_events) + 1
          /\ SubSeq(medication_events', 1, Len(medication_events)) = medication_events
          /\ symptom_events' = symptom_events
          /\ LET event == medication_events'[Len(medication_events')]
             IN  /\ event.medication = "metformin"
                 /\ "dose" \in DOMAIN event
                 /\ event.dose = "1000mg"
                 /\ event.time_of_day = "morning"]_vars

\* a dose as the medication stream may hold it: what a dose pattern matches,
\* or the words that stand for a dose that was not given
IsDose(x) ==
    \/ x = "dose not specified"
    \/ x # None /\ _extract_dose(x) = x

\* C16: in every reachable state, the seeded state and the states after
\* Submit-text appends among them, every event of the medication stream has a
\* dose that is a dose-pattern match or "dose not specified", never missing
\* and never None, and has route "oral".
C16_MedicationEventsHaveDoseAndRoute ==
    \A i \in 1..Len(medication_events) :
        /\ "dose" \in DOMAIN medication_events[i]
        /\ IsDose(medication_events[i].dose)
        /\ "route" \in DOMAIN medication_events[i]
        /\ medication_events[i].route = "oral"

\* the response of a method of the note generator called on its own
IsGeneration(r) == r.op \in {"generate_nursing_note", "generate_medication_note"}

\* the text the method of a response gives for the empty list
PlaceholderOf(r) ==
    IF r.op = "generate_nursing_note"
    THEN "No symptoms documented during this period."
    ELSE "No medications documented during this period."

\* C17: called on the empty list, generate_nursing_note and
\* generate_medication_note return their fixed text and call the generation
\* model not once; called on a list that is not empty, each calls it once.
C17_EmptyListSkipsGeneration ==
    IsGeneration(response) =>
        IF response.input = <<>>
        THEN /\ response.reply.text = [placeholder |-> PlaceholderOf(response)]
             /\ response.reply.gen_calls = 0
        ELSE /\ response.reply.gen_calls = 1
             /\ "note" \in DOMAIN response.reply.text

\* the nursing note of the empty list
C17_Witness ==
    /\ response.op = "generate_nursing_note"
    /\ response.input = <<>>
    /\ response.reply.gen_calls = 0

\* what a generation service that gives a fixed output for a fixed prompt
\* makes of a list of symptom events: it is a matter of the list alone
NoteOf(events) ==
    [header |-> "=== SYMPTOM DOCUMENTATION ===\n",
     note   |-> [generated_for |-> NursingNotePrompt(events)],
     footer |-> "\n\nNote: This is documentation only. No clinical interpretation provided."]

\* C18: with a generation service that gives a fixed output for a fixed
\* prompt, the nursing note is a matter of the event list alone: whatever
\* appends, queries and note generations ran before it, a nursing note
\* generated from a list is the one text that belongs to that list, so two
\* notes generated from the same list are the same.
C18_NoteDependsOnEventListOnly ==
    (response.op = "generate_nursing_note" /\ response.reply.kind = "note") =>
        response.reply.text = NoteOf(symptom_events)

\* a nursing note generated from the seeded symptom list, as in the initial
\* state, after a medication event was appended and a record operation failed
C18_Witness ==
    /\ response.op = "generate_nursing_note"
    /\ response.reply.kind = "note"
    /\ symptom_events = SeedSymptomEvents
    /\ Len(medication_events) > Len(SeedMedicationEvents)
    /\ nFailed > 0

\* the requests whose handler has begun and has not returned
Midway == {i \in 1..Len(tasks) : tasks[i].pc \notin {"ready", "done"}}

\* C19: the chat requests in flight are served one at a time: a request whose
\* handler has begun runs its extraction and its append and returns before
\* another takes a step, so no two appends interleave, and the events of each
\* stream stand in the order in which their requests were accepted.
C19_RequestsRunOneAtATime ==
    /\ Cardinality(Midway) <= 1
    /\ \A i \in Midway : current = i /\ \A j \in 1..(i - 1) : tasks[j].pc = "done"
    /\ \A i, j \in 1..Len(tasks) :
          (/\ i < j
           /\ tasks[i].ref # NoRef
           /\ tasks[j].ref # NoRef
           /\ tasks[i].ref[1] = tasks[j].ref[1]) =>
              tasks[i].ref[2] < tasks[j].ref[2]
    /\ \A i \in 1..Len(tasks) :
          /\ tasks[i].ref # NoRef =>
                EventAt(tasks[i].ref).raw_text = UserText(tasks[i].request)
          /\ (tasks[i].pc = "done" /\ tasks[i].http = 200
                /\ tasks[i].found.symptom # None) => tasks[i].ref[1] = "symptom"

\* a request with a symptom came while the handler of another was between
\* its extraction and its append, and both have appended and returned
C19_Witness ==
    /\ Len(tasks) = 2
    /\ tasks[2].came_during = 1
    /\ \A i \in 1..2 : tasks[i].pc = "done" /\ tasks[i].ref[1] = "symptom"

\* a vocabulary symptom of the running system occurs in the text
HoldsSymptom(text) ==
    \E k \in 1..Len(IF mode = "full" THEN symptoms ELSE FallbackSymptoms) :
        Occurs((IF mode = "full" THEN symptoms ELSE FallbackSymptoms)[k], text)

\* a vocabulary medication of the running system occurs in the text
HoldsMedication(text) ==
    \E k \in 1..Len(IF mode = "full" THEN medications ELSE FallbackMedications) :
        Occurs((IF mode = "full" THEN medications ELSE FallbackMedications)[k], text)

\* the handler of task i runs in this step, and what text it was given
Dispatched(i) ==
    /\ i \in 1..Len(tasks)
    /\ tasks[i].pc = "dispatch"
    /\ tasks'[i].pc = "return"

\* C20: the dispatcher of Submit-text puts a recognized symptom before all
\* else: a text that holds a vocabulary symptom appends exactly one symptom
\* event and leaves the medication stream alone, also when it holds a
\* vocabulary medication or the words "timeline" or "help"; a medication
\* event is appended only for a text with a medication and no symptom; the
\* timeline is returned only when neither is recognized.
C20_SymptomGoesFirst ==
    [][\A i \in 1..MaxRequests :
          Dispatched(i) =>
             LET text == UserText(tasks[i].request)
             IN  /\ HoldsSymptom(text) =>
                       /\ Len(symptom_events') = Len(symptom_events) + 1
                       /\ IsPrefix(symptom_events, symptom_events')
                       /\ symptom_events'[Len(symptom_events')].raw_text = text
                       /\ medication_events' = medication_events
                       /\ tasks'[i].reply.kind = "symptom_documented"
                 /\ medication_events' # medication_events =>
                       /\ HoldsMedication(text) /\ ~HoldsSymptom(text)
                       /\ Len(medication_events') = Len(medication_events) + 1
                       /\ symptom_events' = symptom_events
                 /\ tasks'[i].reply.kind \in {"timeline", "timeline_empty"} =>
                       ~HoldsSymptom(text) /\ ~HoldsMedication(text)]_vars

\* a text with a symptom, a medication and the words timeline and help has
\* been recorded as a symptom, after a text with a medication alone
C20_Witness ==
    /\ Len(tasks) = 2
    /\ tasks[1].request.text = "aspirin timeline"
    /\ tasks[1].ref[1] = "medication"
    /\ tasks[2].request.text = "Headache and aspirin, show timeline help"
    /\ tasks[2].ref[1] = "symptom"
    /\ tasks[2].pc = "done"

=============================================================================
